---- MODULE Spec2Model ----
(***************************************************************************)
(* A model of jupyter_events.logger.EventLogger: the schema registry it    *)
(* consults, the table of modifiers, the list of logging handlers and the  *)
(* underlying logging.Logger, and the operations register_event_schema,    *)
(* register_handler, remove_handler, add_modifier, remove_modifier, emit.  *)
(***************************************************************************)
EXTENDS Integers, Sequences, FiniteSets, TLC

VARIABLES
    handlers,       \* EventLogger.handlers: a list of handlers (<<>> when None)
    handlers_none,  \* TRUE when EventLogger.handlers is None (allow_none=True)
    log_handlers,   \* self.log.handlers: the handlers attached to the logging.Logger
    schemas,        \* the keys held by self.schemas (the SchemaRegistry)
    modifiers,      \* EventLogger._modifiers: a dict in insertion order, <<key, set>> items
    onceregistry,   \* warnings' registry of the "once" filter: the texts already shown
    warn_count,     \* how many SchemaNotRegistered warnings were shown, per key
    missed,         \* history: <<key, modifier>> broadcast while key was not registered,
                    \*   and not added to the key since
    last,           \* the last call: its arguments, what it did and what it returned
    emitting,       \* an emit call on another thread, between two steps of its loop
    registering     \* a register_event_schema call on another thread, between
                    \*   self.schemas.register(schema) and self._modifiers[key] = set()

vars == <<handlers, handlers_none, log_handlers, schemas, modifiers,
          onceregistry, warn_count, missed, last, emitting, registering>>

(***************************************************************************)
(* Bounds of the model.                                                    *)
(***************************************************************************)
\* Longest handlers list given to the constructor.
MaxInitHandlers == 2
\* The count of warnings shown per key stops growing here.
MaxWarnCount == 3

(***************************************************************************)
(* Values.                                                                 *)
(***************************************************************************)
EVENTS_METADATA_VERSION == 1

\* logging.Handler instances.
Sinks == {"h1", "h2"}

\* Schema ids and versions of the schema documents that can be registered.
Ids == {"org.a", "org.b"}
Versions == {1, 2}
Keys == {<<"org.a", 1>>, <<"org.a", 2>>, <<"org.b", 1>>}

\* The argument None of schema_id, and of version (falsy, like 0).
NoneId == "None"
NoneVersion == 0

\* JSON values carry their type.
JInt(n) == <<"int", n>>
JStr(s) == <<"str", s>>

ReservedKeys == {"__timestamp__", "__schema__", "__schema_version__",
                 "__metadata_version__"}

\* Event data the callers submit: dicts from field names to JSON values.
Payloads ==
    { "x" :> JInt(5),
      "x" :> JStr("not-an-integer"),
      ("x" :> JInt(5)) @@ ("secret" :> JStr("pii")),
      ("x" :> JInt(5)) @@ ("__timestamp__" :> JStr("forged"))
          @@ ("__schema__" :> JStr("forged"))
          @@ ("__schema_version__" :> JInt(99))
          @@ ("__metadata_version__" :> JInt(99)) }

\* The values given as `modifier`: two functions with the enforced signature,
\* a function with another signature, and a value that is not callable.
GoodModifiers == {"set_x_7", "x_to_str"}
ModifierArgs == GoodModifiers \cup {"unannotated", "not_callable"}

ExpectedSignature == "(schema_id: str, version: int, data: dict) -> dict"

callable(m) == m # "not_callable"

signature(m) ==
    IF m \in GoodModifiers THEN ExpectedSignature
    ELSE "(schema_id, version, data)"

\* What a modifier returns for the data it is given.
CallModifier(m, schema_id, version, data) ==
    CASE m = "set_x_7"  -> ("x" :> JInt(7)) @@ data
      [] m = "x_to_str" -> IF "x" \in DOMAIN data /\ data["x"][1] = "int"
                           THEN ("x" :> JStr("seven")) @@ data
                           ELSE data
      [] OTHER          -> data

(***************************************************************************)
(* Lists and dicts.                                                        *)
(***************************************************************************)
Range(s) == {s[i] : i \in 1..Len(s)}

\* list.remove / Logger.removeHandler: drop the first occurrence.
RECURSIVE ListRemove(_, _)
ListRemove(s, x) ==
    IF s = <<>> THEN <<>>
    ELSE IF Head(s) = x THEN Tail(s)
    ELSE <<Head(s)>> \o ListRemove(Tail(s), x)

DictKeys(d) == {d[i][1] : i \in 1..Len(d)}

DictGet(d, k) == d[CHOOSE i \in 1..Len(d) : d[i][1] = k][2]

\* dict[k] = v: an existing key keeps its place, a new key goes last.
DictSet(d, k, v) ==
    IF k \in DictKeys(d)
    THEN [i \in 1..Len(d) |-> IF d[i][1] = k THEN <<k, v>> ELSE d[i]]
    ELSE Append(d, <<k, v>>)

\* The orders in which a set can be iterated.
Orders(S) ==
    {o \in [1..Cardinality(S) -> S] : \A i, j \in 1..Cardinality(S) : o[i] = o[j] => i = j}

(***************************************************************************)
(* The SchemaRegistry the logger delegates to (schema_registry.py).        *)
(***************************************************************************)
\* The schema documents given to register: one per key, and a malformed one.
InvalidDoc == <<"invalid", 0>>

\* SchemaRegistry.__contains__
contains(reg, key) == key \in reg

\* Every schema declares the property x as an integer; other fields are free.
Conforms(key, data) == "x" \in DOMAIN data => data["x"][1] = "int"

\* The fields a schema marks for redaction.
Redacted(key) == IF key[1] = "org.b" THEN {"secret"} ELSE {}

\* SchemaRegistry.validate_event: the data as left in place when it conforms.
validate_event(key, data) ==
    [f \in DOMAIN data \ Redacted(key) |-> data[f]]

(***************************************************************************)
(* Handlers: EventLogger.handlers and the logging.Logger behind it.        *)
(***************************************************************************)
\* logging.Logger.addHandler: attach unless already attached.
addHandler(lh, h) == IF h \in Range(lh) THEN lh ELSE Append(lh, h)

\* logging.Logger.removeHandler
removeHandler(lh, h) == ListRemove(lh, h)

\* register_handler on the handlers list: append if absent.
append_handler(hs, h) == IF h \in Range(hs) THEN hs ELSE Append(hs, h)

\* remove_handler on the handlers list: remove if present.
discard_handler(hs, h) == IF h \in Range(hs) THEN ListRemove(hs, h) ELSE hs

\* __init__: register_handler for each handler of the configured list.
RECURSIVE init_log(_, _)
init_log(hs, lh) ==
    IF hs = <<>> THEN lh ELSE init_log(Tail(hs), addHandler(lh, Head(hs)))

\* Logger.info(capsule): every attached handler is written to once.
log_info(lh) == [h \in Sinks |-> Cardinality({i \in 1..Len(lh) : lh[i] = h})]

NoWrites == [h \in Sinks |-> 0]

\* How the handlers' writes can end: every write succeeds; a write fails and
\* the handler's own handleError takes the failure; a handler's emit raises.
WriteOutcomes == {"ok", "handled", "raised"}

\* Logger.info(capsule) when the first attached handler raises: the exception
\* leaves callHandlers before the handlers after it are reached.
log_info_raised(lh) == [h \in Sinks |-> IF lh # <<>> /\ h = lh[1] THEN 1 ELSE 0]

\* self.log.info(capsule); return capsule
dispatch_outcome(lh, w) ==
    IF lh # <<>> /\ w = "raised" THEN "HandlerError" ELSE "capsule"

(***************************************************************************)
(* The steps of emit.                                                      *)
(***************************************************************************)
\* A check that forgets the empty list.
no_handlers_only_none(hs, none) == none

\* `if not self.handlers`
no_handlers(hs, none) == none \/ hs = <<>>

\* A filter that shows every warning.
once_shows_always(reg, key) == TRUE

\* The "once" filter shows a warning whose text it has not shown yet.
once_shows(reg, key) == key \notin reg

\* The object emit is called with, and the one copy.deepcopy creates.
CallerObject == "caller"
FreshObject == "copy"

\* An emit that works on the object it was given.
deepcopy_alias(obj) == obj

\* modified_data = copy.deepcopy(data): a new object with the same content.
deepcopy(obj) == FreshObject

\* What the caller's object holds after emit worked on `obj`: what was written
\* in place, when `obj` is the caller's object, and what it held otherwise.
caller_after(obj, data, written) == IF obj = CallerObject THEN written ELSE data

\* A loop that hands every modifier the data emit was called with.
run_modifiers_fresh(order, schema_id, version, data) ==
    IF order = <<>> THEN data
    ELSE CallModifier(order[Len(order)], schema_id, version, data)

\* The loop over self._modifiers[(schema_id, version)], in the order `order`.
RECURSIVE run_modifiers(_, _, _, _)
run_modifiers(order, schema_id, version, data) ==
    IF order = <<>> THEN data
    ELSE run_modifiers(Tail(order), schema_id, version,
                       CallModifier(Head(order), schema_id, version, data))

\* An emit that carries on after a validation error.
emit_outcome_swallowed(valid) == "capsule"

\* What emit does once validate_event has answered.
emit_outcome(valid) == IF valid THEN "capsule" ELSE "EventValidationError"

\* timestamp.isoformat() + "Z"
isoformat_z(t) == JStr(t \o "Z")

Now == "2026-01-01T00:00:00"
NoneTimestamp == "None"
Timestamps == {NoneTimestamp, "2020-02-02T00:00:00"}

\* The capsule: the reserved keys, then capsule.update(modified_data).
make_capsule(timestamp, schema_id, version, data) ==
    data @@ ( ("__timestamp__" :> isoformat_z(timestamp))
              @@ ("__schema__" :> JStr(schema_id))
              @@ ("__schema_version__" :> JInt(version))
              @@ ("__metadata_version__" :> JInt(EVENTS_METADATA_VERSION)) )

EmptyDict == [f \in {} |-> JInt(0)]

(***************************************************************************)
(* The table of modifiers.                                                 *)
(***************************************************************************)
\* A registration that hands the new key the modifiers the table holds.
register_entry_inherit(d, key) == DictSet(d, key, UNION {d[i][2] : i \in 1..Len(d)})

\* A registration that creates no item in the table.
register_entry_skip(d, key) == d

\* register_event_schema: self._modifiers[key] = set()
register_entry(d, key) == DictSet(d, key, {})

\* A check that accepts every callable.
signature_ok_any(m) == TRUE

\* `if signature == expected_signature`
signature_ok(m) == signature(m) = ExpectedSignature

\* `if schema_id and version`
scoped(schema_id, version) == schema_id # NoneId /\ version # NoneVersion

\* A scoped call that does not return and goes on to the loop over the keys.
add_targets_no_return(d, schema_id, version) ==
    {k \in DictKeys(d) : schema_id = NoneId \/ k[1] = schema_id}

\* The keys whose set add_modifier adds to.
add_targets(d, schema_id, version) ==
    IF scoped(schema_id, version)
    THEN {<<schema_id, version>>}
    ELSE {k \in DictKeys(d) : schema_id = NoneId \/ k[1] = schema_id}

\* self._modifiers[key].add(modifier), for every key of `targets`.
add_to(d, targets, m) ==
    [i \in 1..Len(d) |->
        IF d[i][1] \in targets THEN <<d[i][1], d[i][2] \cup {m}>> ELSE d[i]]

\* The values given as schema_id to remove_modifier: None, an id, a key.
RemoveArgs ==
    {<<"none">>} \cup {<<"str", id>> : id \in Ids}
                 \cup {<<"tuple", k[1], k[2]>> : k \in Keys}

\* self._modifiers[schema_id]: the dict's keys are (id, version) tuples.
has_item(d, arg) == arg[1] = "tuple" /\ <<arg[2], arg[3]>> \in DictKeys(d)

\* set.remove(modifier) on the sets of the first n items.
remove_upto(d, n, m) ==
    [i \in 1..Len(d) |-> IF i <= n THEN <<d[i][1], d[i][2] \ {m}>> ELSE d[i]]

\* The items whose set lacks the modifier: set.remove raises KeyError there.
missing_at(d, m) == {i \in 1..Len(d) : m \notin d[i][2]}

Min(S) == CHOOSE x \in S : \A y \in S : x <= y

(***************************************************************************)
(* The state after construction.                                           *)
(***************************************************************************)
Call(op, outcome) ==
    [op |-> op, outcome |-> outcome,
     key |-> <<NoneId, NoneVersion>>, arg |-> <<"none">>,
     modifier |-> "-", sink |-> "-",
     data |-> EmptyDict, timestamp |-> NoneTimestamp,
     invoked |-> <<>>, modified |-> EmptyDict, capsule |-> EmptyDict,
     writes |-> NoWrites, warned |-> FALSE, checked |-> FALSE,
     validated |-> FALSE, known |-> FALSE, caller_data |-> EmptyDict,
     write |-> "ok"]

\* No emit call is between two steps; no registration is half done.
NoEmit == [pc |-> "idle"]
NoKey == <<NoneId, NoneVersion>>

\* The lists the handlers trait can be constructed with, over `sinks`.
HandlerLists(sinks) == UNION {[1..n -> sinks] : n \in 0..MaxInitHandlers}

\* EventLogger(handlers=None) or EventLogger(handlers=[...]), and __init__.
Construct(lists, nones) ==
    /\ handlers_none \in nones
    /\ handlers \in (IF handlers_none THEN {<<>>} ELSE lists)
    /\ log_handlers = init_log(handlers, <<>>)
    /\ schemas = {}
    /\ modifiers = <<>>
    /\ onceregistry = {}
    /\ warn_count = [k \in Keys |-> 0]
    /\ missed = {}
    /\ last = Call("__init__", "ok")
    /\ emitting = NoEmit
    /\ registering = NoKey

(***************************************************************************)
(* The operations.                                                         *)
(***************************************************************************)
RegisterInvalid ==
    /\ last' = Call("register_event_schema", "SchemaInvalid")
    /\ UNCHANGED <<emitting, registering,
                   handlers, handlers_none, log_handlers, schemas, modifiers,
                   onceregistry, warn_count, missed>>

RegisterRejected(key) ==
    /\ key \in schemas
    /\ last' = [Call("register_event_schema", "SchemaRegistryException")
                    EXCEPT !.key = key]
    /\ UNCHANGED <<emitting, registering,
                   handlers, handlers_none, log_handlers, schemas, modifiers,
                   onceregistry, warn_count, missed>>

RegisterAccepted(key) ==
    /\ schemas' = schemas \cup {key}
    /\ modifiers' = register_entry(modifiers, key)
    /\ last' = [Call("register_event_schema", "ok")
                    EXCEPT !.key = key, !.known = key \in schemas]
    /\ UNCHANGED <<emitting, registering,
                   handlers, handlers_none, log_handlers, onceregistry, warn_count,
                   missed>>

RegisterEventSchema(doc) ==
    \/ doc = InvalidDoc /\ RegisterInvalid
    \/ doc \in Keys /\ RegisterRejected(doc)
    \/ doc \in Keys /\ RegisterAccepted(doc)

RegisterHandler(h) ==
    /\ log_handlers' = addHandler(log_handlers, h)
    /\ handlers' = IF handlers_none THEN handlers ELSE append_handler(handlers, h)
    /\ last' = [Call("register_handler", IF handlers_none THEN "TypeError" ELSE "ok")
                    EXCEPT !.sink = h]
    /\ UNCHANGED <<emitting, registering,
                   handlers_none, schemas, modifiers, onceregistry, warn_count, missed>>

RemoveHandler(h) ==
    /\ log_handlers' = removeHandler(log_handlers, h)
    /\ handlers' = IF handlers_none THEN handlers ELSE discard_handler(handlers, h)
    /\ last' = [Call("remove_handler", IF handlers_none THEN "TypeError" ELSE "ok")
                    EXCEPT !.sink = h]
    /\ UNCHANGED <<emitting, registering,
                   handlers_none, schemas, modifiers, onceregistry, warn_count, missed>>

\* A scoped add that tolerates a key the table does not hold.
add_modifier_outcome_no_lookup(d, schema_id, version, m) ==
    IF ~callable(m) THEN "TypeError"
    ELSE IF ~signature_ok(m) THEN "ModifierError"
    ELSE "ok"

add_modifier_outcome(d, schema_id, version, m) ==
    IF ~callable(m) THEN "TypeError"
    ELSE IF ~signature_ok(m) THEN "ModifierError"
    ELSE IF scoped(schema_id, version) /\ <<schema_id, version>> \notin DictKeys(d)
    THEN "KeyError"
    ELSE "ok"

\* The history of broadcasts after a successful add_modifier call, kept for
\* the keys of `tracked`.
missed_after(schema_id, version, m, tracked) ==
    LET both == schema_id # NoneId /\ version # NoneVersion
        named == IF both THEN {<<schema_id, version>>}
                 ELSE {k \in tracked : schema_id \in {NoneId, k[1]}}
    IN (missed \ {<<k, m>> : k \in named \cap schemas})
           \cup (IF both THEN {} ELSE {<<k, m>> : k \in named \ schemas})

AddModifier(schema_id, version, m, tracked) ==
    LET outcome == add_modifier_outcome(modifiers, schema_id, version, m) IN
    /\ modifiers' = IF outcome = "ok"
                    THEN add_to(modifiers, add_targets(modifiers, schema_id, version), m)
                    ELSE modifiers
    /\ missed' = IF outcome = "ok" THEN missed_after(schema_id, version, m, tracked)
                 ELSE missed
    /\ last' = [Call("add_modifier", outcome)
                    EXCEPT !.key = <<schema_id, version>>, !.modifier = m]
    /\ UNCHANGED <<emitting, registering,
                   handlers, handlers_none, log_handlers, schemas,
                   onceregistry, warn_count>>

RemoveModifierFrom(arg, m) ==
    LET found == has_item(modifiers, arg) /\ m \in DictGet(modifiers, <<arg[2], arg[3]>>) IN
    /\ arg # <<"none">>
    /\ modifiers' = IF found
                    THEN DictSet(modifiers, <<arg[2], arg[3]>>,
                                 DictGet(modifiers, <<arg[2], arg[3]>>) \ {m})
                    ELSE modifiers
    /\ last' = [Call("remove_modifier", IF found THEN "ok" ELSE "KeyError")
                    EXCEPT !.arg = arg, !.modifier = m]
    /\ UNCHANGED <<emitting, registering,
                   handlers, handlers_none, log_handlers, schemas,
                   onceregistry, warn_count, missed>>

RemoveModifierAll(m) ==
    LET missing == missing_at(modifiers, m) IN
    /\ modifiers' = IF missing = {}
                    THEN remove_upto(modifiers, Len(modifiers), m)
                    ELSE remove_upto(modifiers, Min(missing) - 1, m)
    /\ last' = [Call("remove_modifier", IF missing = {} THEN "ok" ELSE "KeyError")
                    EXCEPT !.modifier = m]
    /\ UNCHANGED <<emitting, registering,
                   handlers, handlers_none, log_handlers, schemas,
                   onceregistry, warn_count, missed>>

RemoveModifier(arg, m) ==
    \/ RemoveModifierFrom(arg, m)
    \/ arg = <<"none">> /\ RemoveModifierAll(m)

\* emit with no handler: `return` before anything else.
EmitNoHandlers(schema_id, version, data, timestamp_override) ==
    /\ no_handlers(handlers, handlers_none)
    /\ last' = [Call("emit", "None")
                    EXCEPT !.key = <<schema_id, version>>, !.data = data,
                           !.caller_data = data,
                           !.timestamp = timestamp_override]
    /\ UNCHANGED <<emitting, registering,
                   handlers, handlers_none, log_handlers, schemas, modifiers,
                   onceregistry, warn_count, missed>>

\* emit for a schema the registry does not hold: warn and `return`.
EmitNotRegistered(schema_id, version, data, timestamp_override) ==
    LET key == <<schema_id, version>>
        shown == once_shows(onceregistry, key)
    IN
    /\ ~no_handlers(handlers, handlers_none)
    /\ ~contains(schemas, key)
    /\ onceregistry' = onceregistry \cup {key}
    /\ warn_count' = IF shown /\ warn_count[key] < MaxWarnCount
                     THEN [warn_count EXCEPT ![key] = @ + 1]
                     ELSE warn_count
    /\ last' = [Call("emit", "None")
                    EXCEPT !.key = key, !.data = data,
                           !.caller_data = data,
                           !.timestamp = timestamp_override,
                           !.checked = TRUE, !.warned = shown]
    /\ UNCHANGED <<emitting, registering,
                   handlers, handlers_none, log_handlers, schemas, modifiers, missed>>

\* emit for a registered schema: copy, modify, validate, stamp, dispatch.
EmitRegistered(schema_id, version, data, timestamp_override, w) ==
    LET key == <<schema_id, version>> IN
    /\ ~no_handlers(handlers, handlers_none)
    /\ contains(schemas, key)
    /\ \E order \in Orders(DictGet(modifiers, key)) :
        LET modified_data == run_modifiers(order, schema_id, version, data)
            valid == Conforms(key, modified_data)
            outcome == IF emit_outcome(valid) = "capsule"
                       THEN dispatch_outcome(log_handlers, w)
                       ELSE emit_outcome(valid)
            timestamp == IF timestamp_override = NoneTimestamp
                         THEN Now ELSE timestamp_override
        IN
        last' = [Call("emit", outcome)
                    EXCEPT !.key = key, !.data = data,
                           !.caller_data =
                               caller_after(deepcopy(CallerObject), data,
                                   IF valid THEN validate_event(key, modified_data)
                                   ELSE modified_data),
                           !.timestamp = timestamp_override,
                           !.checked = TRUE, !.validated = TRUE,
                           !.invoked = order, !.modified = modified_data,
                           !.capsule = IF outcome = "capsule"
                                       THEN make_capsule(timestamp, schema_id, version,
                                                validate_event(key, modified_data))
                                       ELSE EmptyDict,
                           !.writes = IF outcome = "capsule"
                                      THEN log_info(log_handlers)
                                      ELSE IF outcome = "HandlerError"
                                      THEN log_info_raised(log_handlers)
                                      ELSE NoWrites,
                           !.write = w]
    /\ UNCHANGED <<emitting, registering,
                   handlers, handlers_none, log_handlers, schemas, modifiers,
                   onceregistry, warn_count, missed>>

Emit(schema_id, version, data, timestamp_override, w) ==
    \/ EmitNoHandlers(schema_id, version, data, timestamp_override)
    \/ EmitNotRegistered(schema_id, version, data, timestamp_override)
    \/ EmitRegistered(schema_id, version, data, timestamp_override, w)

\* One call of the API, its arguments drawn from the given sets.
Step(sinks, keys, payloads, timestamps, margs, tracked, outcomes) ==
    \/ \E doc \in keys \cup {InvalidDoc} : RegisterEventSchema(doc)
    \/ \E h \in sinks : RegisterHandler(h)
    \/ \E h \in sinks : RemoveHandler(h)
    \/ \E schema_id \in {k[1] : k \in keys} \cup {NoneId},
          version \in {k[2] : k \in keys} \cup {NoneVersion},
          m \in margs : AddModifier(schema_id, version, m, tracked)
    \/ \E arg \in {a \in RemoveArgs : a[1] = "tuple" => <<a[2], a[3]>> \in keys},
          m \in margs \cap GoodModifiers : RemoveModifier(arg, m)
    \/ \E k \in keys, data \in payloads, t \in timestamps, w \in outcomes :
          Emit(k[1], k[2], data, t, w)

(***************************************************************************)
(* Spec: the emission pipeline, with every key, payload and modifier, and  *)
(* one handler that is registered or not.                                  *)
(***************************************************************************)
PipelineKeys == {<<"org.a", 1>>, <<"org.b", 1>>}

Init == Construct({<<>>, <<"h1">>}, {FALSE})

Next == Step({"h1"}, PipelineKeys, Payloads, Timestamps, ModifierArgs, {}, {"ok"})

Spec == Init /\ [][Next]_vars

(***************************************************************************)
(* SpecSinks: the handlers, with every handler and one schema.             *)
(***************************************************************************)
SinkPayloads == {"x" :> JInt(5), "x" :> JStr("not-an-integer")}

InitSinks == Construct(HandlerLists(Sinks), BOOLEAN)

NextSinks ==
    Step(Sinks, {<<"org.a", 1>>}, SinkPayloads, {NoneTimestamp},
         {"set_x_7", "not_callable"}, {}, WriteOutcomes)

SpecSinks == InitSinks /\ [][NextSinks]_vars

(***************************************************************************)
(* SpecSnapshot: registrations and broadcasts, with the history of the     *)
(* broadcasts a key missed.                                                *)
(***************************************************************************)
NextSnapshot ==
    Step({"h1"}, PipelineKeys, {"x" :> JInt(5)}, {NoneTimestamp}, GoodModifiers,
         PipelineKeys, {"ok"})

SpecSnapshot == Init /\ [][NextSnapshot]_vars

(***************************************************************************)
(* SpecScoped: the table of modifiers over every key, two of them versions *)
(* of one schema id, with one modifier.                                    *)
(***************************************************************************)
NextScoped ==
    Step({"h1"}, Keys, {"x" :> JInt(5)}, {NoneTimestamp}, {"set_x_7"}, {}, {"ok"})

SpecScoped == Init /\ [][NextScoped]_vars

(***************************************************************************)
(* SpecConc: emit and register_event_schema on threads of their own, their *)
(* steps interleaved with each other and with calls of add_modifier and    *)
(* remove_modifier. EventLogger holds no lock.                             *)
(***************************************************************************)
ConcKey == <<"org.a", 1>>
ConcData == "x" :> JInt(5)

\* register_event_schema, up to and including self.schemas.register(schema).
RegisterBegin(key) ==
    /\ registering = NoKey
    /\ ~contains(schemas, key)
    /\ schemas' = schemas \cup {key}
    /\ registering' = key
    /\ UNCHANGED <<handlers, handlers_none, log_handlers, modifiers, onceregistry,
                   warn_count, missed, last, emitting>>

\* register_event_schema, its last statement: self._modifiers[key] = set().
RegisterEnd ==
    /\ registering # NoKey
    /\ modifiers' = register_entry(modifiers, registering)
    /\ registering' = NoKey
    /\ last' = [Call("register_event_schema", "ok") EXCEPT !.key = registering]
    /\ UNCHANGED <<handlers, handlers_none, log_handlers, schemas, onceregistry,
                   warn_count, missed, emitting>>

\* emit, from the two checks to the iterator over self._modifiers[key]: the
\* lookup raises KeyError when the table has no item for the key.
EmitBegin(schema_id, version, data) ==
    LET key == <<schema_id, version>> IN
    /\ emitting = NoEmit
    /\ ~no_handlers(handlers, handlers_none)
    /\ contains(schemas, key)
    /\ IF key \in DictKeys(modifiers)
       THEN /\ emitting' = [pc |-> "modifying", key |-> key, data |-> data,
                            modified |-> data, invoked |-> <<>>,
                            iterated |-> DictGet(modifiers, key)]
            /\ last' = last
       ELSE /\ emitting' = NoEmit
            /\ last' = [Call("emit", "KeyError")
                            EXCEPT !.key = key, !.data = data, !.caller_data = data,
                                   !.checked = TRUE]
    /\ UNCHANGED <<handlers, handlers_none, log_handlers, schemas, modifiers,
                   onceregistry, warn_count, missed, registering>>

\* next() of the iterator of a set that held `iterated` when the iterator was
\* created and holds `live` now, after the modifiers of `invoked` were
\* yielded: RuntimeError when the size changed, the elements in turn when
\* nothing changed, and any element not yet yielded, or the end, when the
\* size is the same and the elements are not.
set_next(iterated, live, invoked) ==
    IF Cardinality(live) # Cardinality(iterated) THEN {"RuntimeError"}
    ELSE IF live = iterated
    THEN (IF live \subseteq Range(invoked) THEN {"StopIteration"}
          ELSE live \ Range(invoked))
    ELSE (live \ Range(invoked)) \cup {"StopIteration"}

\* What next() can answer for the emit call in progress.
EmitIterator ==
    set_next(emitting.iterated, DictGet(modifiers, emitting.key), emitting.invoked)

\* One turn of the loop: the modifier the iterator yields is called.
EmitInvoke ==
    /\ emitting.pc = "modifying"
    /\ \E m \in EmitIterator \cap GoodModifiers :
        emitting' = [emitting EXCEPT
                        !.modified = CallModifier(m, emitting.key[1],
                                                  emitting.key[2], @),
                        !.invoked = Append(@, m)]
    /\ UNCHANGED <<handlers, handlers_none, log_handlers, schemas, modifiers,
                   onceregistry, warn_count, missed, last, registering>>

\* The iterator raises "Set changed size during iteration".
EmitRaise ==
    /\ emitting.pc = "modifying"
    /\ "RuntimeError" \in EmitIterator
    /\ emitting' = NoEmit
    /\ last' = [Call("emit", "RuntimeError")
                    EXCEPT !.key = emitting.key, !.data = emitting.data,
                           !.caller_data = emitting.data, !.checked = TRUE,
                           !.invoked = emitting.invoked,
                           !.modified = emitting.modified]
    /\ UNCHANGED <<handlers, handlers_none, log_handlers, schemas, modifiers,
                   onceregistry, warn_count, missed, registering>>

\* The loop ends: validate, stamp, dispatch.
EmitFinish ==
    LET key == emitting.key
        valid == Conforms(key, emitting.modified)
        outcome == emit_outcome(valid)
    IN
    /\ emitting.pc = "modifying"
    /\ "StopIteration" \in EmitIterator
    /\ emitting' = NoEmit
    /\ last' = [Call("emit", outcome)
                    EXCEPT !.key = key, !.data = emitting.data,
                           !.caller_data = emitting.data,
                           !.checked = TRUE, !.validated = TRUE,
                           !.invoked = emitting.invoked,
                           !.modified = emitting.modified,
                           !.capsule = IF valid
                                       THEN make_capsule(Now, key[1], key[2],
                                                validate_event(key, emitting.modified))
                                       ELSE EmptyDict,
                           !.writes = IF valid THEN log_info(log_handlers)
                                      ELSE NoWrites]
    /\ UNCHANGED <<handlers, handlers_none, log_handlers, schemas, modifiers,
                   onceregistry, warn_count, missed, registering>>

InitConc == Construct({<<"h1">>}, {FALSE})

NextConc ==
    \/ RegisterBegin(ConcKey)
    \/ RegisterEnd
    \/ \E m \in GoodModifiers : AddModifier(NoneId, NoneVersion, m, {})
    \/ \E m \in GoodModifiers :
          RemoveModifierFrom(<<"tuple", ConcKey[1], ConcKey[2]>>, m)
    \/ EmitBegin(ConcKey[1], ConcKey[2], ConcData)
    \/ EmitInvoke
    \/ EmitRaise
    \/ EmitFinish

SpecConc == InitConc /\ [][NextConc]_vars

(***************************************************************************)
(* The claims.                                                             *)
(***************************************************************************)
EmitDone == last.op = "emit"
HasSinks == ~handlers_none /\ Len(handlers) > 0

\* C1: with a sink, a registered key and a conforming payload, emit returns an
\* envelope whose keys are the four reserved keys plus the fields of the
\* validated payload, the reserved keys holding the envelope's values; with no
\* modifier registered each payload field holds its submitted value.
C1_ConformingEmitEnvelope ==
    (EmitDone /\ HasSinks /\ last.key \in schemas /\ Conforms(last.key, last.modified))
    => /\ last.outcome = "capsule"
       /\ DOMAIN last.capsule
            = ReservedKeys \cup DOMAIN validate_event(last.key, last.modified)
       /\ last.capsule["__schema__"] = JStr(last.key[1])
       /\ last.capsule["__schema_version__"] = JInt(last.key[2])
       /\ last.capsule["__metadata_version__"] = JInt(1)
       /\ last.invoked = <<>> =>
            \A f \in DOMAIN validate_event(last.key, last.data) \ ReservedKeys :
                last.capsule[f] = last.data[f]

\* C2: with an empty sink set emit returns None and consults no registry,
\* validates nothing, calls no modifier and writes to no sink, whatever the
\* schema key and the payload.
C2_NoSinksShortCircuit ==
    (EmitDone /\ ~HasSinks)
    => /\ last.outcome = "None"
       /\ ~last.checked /\ ~last.validated /\ ~last.warned
       /\ last.invoked = <<>>
       /\ last.writes = NoWrites
       /\ DOMAIN last.capsule = {}

C2_Witness ==
    /\ EmitDone /\ ~handlers_none /\ handlers = <<>>
    /\ last.key \in schemas
    /\ DictGet(modifiers, last.key) # {}
    /\ ~Conforms(last.key, last.data)
    /\ last.outcome = "None"

\* C3: with a sink, emit for an unregistered key returns None without calling
\* a modifier, validating or writing, and however many such emits there were,
\* exactly one SchemaNotRegistered warning was shown for that key.
C3_OneWarningPerKey ==
    /\ \A k \in Keys : warn_count[k] <= 1
    /\ (EmitDone /\ HasSinks /\ last.key \notin schemas)
       => /\ last.outcome = "None"
          /\ last.checked /\ ~last.validated
          /\ last.invoked = <<>>
          /\ last.writes = NoWrites
          /\ warn_count[last.key] = 1

C3_Witness ==
    /\ EmitDone /\ HasSinks /\ last.key \notin schemas
    /\ ~last.warned
    /\ warn_count[last.key] = 1

\* C4: when the payload left by the modifiers does not conform, emit raises
\* EventValidationError, makes no envelope and writes to no sink.
C4_InvalidPayloadRaises ==
    (EmitDone /\ last.validated /\ ~Conforms(last.key, last.modified))
    => /\ last.outcome = "EventValidationError"
       /\ DOMAIN last.capsule = {}
       /\ last.writes = NoWrites

C4_Witness ==
    /\ EmitDone /\ last.outcome = "EventValidationError"
    /\ log_handlers # <<>>
    /\ Conforms(last.key, last.data)
    /\ last.invoked # <<>>

\* C5: a reserved key the payload defines holds the envelope's value in the
\* returned envelope, not the payload's.
C5_EnvelopeWins ==
    (EmitDone /\ last.outcome = "capsule")
    => /\ last.capsule["__timestamp__"]
            = isoformat_z(IF last.timestamp = NoneTimestamp THEN Now ELSE last.timestamp)
       /\ last.capsule["__schema__"] = JStr(last.key[1])
       /\ last.capsule["__schema_version__"] = JInt(last.key[2])
       /\ last.capsule["__metadata_version__"] = JInt(EVENTS_METADATA_VERSION)

\* C6: a modifier broadcast (add_modifier without a version) while a key was
\* not registered is not in the key's set once the key is registered, and no
\* emit for the key calls it, unless it was added to the key again.
C6_BroadcastIsSnapshot ==
    /\ \A pair \in missed :
          pair[1] \in DictKeys(modifiers) => pair[2] \notin DictGet(modifiers, pair[1])
    /\ (EmitDone /\ last.validated)
       => \A i \in 1..Len(last.invoked) : <<last.key, last.invoked[i]>> \notin missed

C6_Witness ==
    /\ EmitDone /\ last.outcome = "capsule"
    /\ last.invoked = <<>>
    /\ \E m \in GoodModifiers :
          /\ <<last.key, m>> \in missed
          /\ \E k \in schemas \ {last.key} : m \in DictGet(modifiers, k)

\* C7: add_modifier with schema_id and version, for a registered key, adds the
\* modifier to that key's set and leaves the set of every other key as it was;
\* an emit calls the modifiers of its own key's set and no other.
C7_ScopedAddTouchesOneKey ==
    [][ /\ (last'.op = "add_modifier" /\ last'.outcome = "ok"
              /\ last'.key[1] # NoneId /\ last'.key[2] # NoneVersion)
           => /\ DictKeys(modifiers') = DictKeys(modifiers)
              /\ last'.modifier \in DictGet(modifiers', last'.key)
              /\ \A k \in DictKeys(modifiers) \ {last'.key} :
                    DictGet(modifiers', k) = DictGet(modifiers, k)
        /\ (last'.op = "emit" /\ last'.validated)
           => Range(last'.invoked) = DictGet(modifiers, last'.key)
      ]_vars

C7_Witness ==
    /\ last.op = "add_modifier" /\ last.outcome = "ok"
    /\ last.key = <<"org.a", 1>>
    /\ last.modifier \in DictGet(modifiers, <<"org.a", 1>>)
    /\ <<"org.a", 2>> \in DictKeys(modifiers)
    /\ <<"org.b", 1>> \in DictKeys(modifiers)
    /\ DictGet(modifiers, <<"org.a", 2>>) = {}
    /\ DictGet(modifiers, <<"org.b", 1>>) = {}

\* C8: each sink of the sink set receives exactly one write per successful
\* emission, after any registrations and removals of sinks.
C8_OneWritePerSink ==
    (EmitDone /\ last.outcome = "capsule")
    => \A h \in Range(handlers) : last.writes[h] = 1

\* C9: add_modifier with a callable whose signature differs from the enforced
\* one raises ModifierError (a value that is not callable raises TypeError) and
\* leaves every set as it was, so no such value is ever in a set or called by
\* emit; a modifier with the enforced signature passes the check and is added.
C9_ContractCheckedAtRegistration ==
    [][ /\ \A i \in 1..Len(modifiers') : modifiers'[i][2] \subseteq GoodModifiers
        /\ last'.op = "emit" => Range(last'.invoked) \subseteq GoodModifiers
        /\ (last'.op = "add_modifier" /\ last'.modifier \notin GoodModifiers)
           => /\ last'.outcome = IF last'.modifier = "not_callable"
                                 THEN "TypeError" ELSE "ModifierError"
              /\ modifiers' = modifiers
        /\ (last'.op = "add_modifier" /\ last'.modifier \in GoodModifiers)
           => /\ last'.outcome \in {"ok", "KeyError"}
              /\ last'.outcome = "KeyError" <=>
                    /\ last'.key[1] # NoneId /\ last'.key[2] # NoneVersion
                    /\ last'.key \notin schemas
              /\ last'.outcome = "ok" =>
                    \A k \in schemas :
                        (k = last'.key \/ (last'.key[2] = NoneVersion
                                            /\ last'.key[1] \in {NoneId, k[1]}))
                        => last'.modifier \in DictGet(modifiers', k)
      ]_vars

C9_Witness ==
    /\ last.op = "add_modifier" /\ last.outcome = "ModifierError"
    /\ last.modifier = "unannotated"
    /\ last.key \in schemas
    /\ DictGet(modifiers, last.key) # {}

\* C10: remove_modifier with the schema id of a registered schema completes
\* without error, and afterwards the modifier is not in that schema's set.
C10_RemoveFromRegisteredSchema ==
    (last.op = "remove_modifier" /\ last.arg[1] # "none"
        /\ last.arg[2] \in {k[1] : k \in schemas})
    => /\ last.outcome = "ok"
       /\ \A k \in schemas :
             k[1] = last.arg[2] => last.modifier \notin DictGet(modifiers, k)

\* C11: remove_modifier without schema_id completes without error, also when
\* the modifier is absent from some or all sets, and afterwards the modifier is
\* in no key's set.
C11_RemoveEverywhere ==
    (last.op = "remove_modifier" /\ last.arg = <<"none">>)
    => /\ last.outcome = "ok"
       /\ \A i \in 1..Len(modifiers) : last.modifier \notin modifiers[i][2]

\* C12: a register_event_schema call the registry accepts for a key that is
\* already registered leaves the modifier set of that key as it was.
C12_ReRegisterKeepsModifiers ==
    [][(/\ last'.op = "register_event_schema"
        /\ last'.outcome = "ok"
        /\ last'.known)
       => DictGet(modifiers', last'.key) = DictGet(modifiers, last'.key)]_vars

\* C13: add_modifier with schema_id and version both given, or remove_modifier
\* with a schema_id, naming a key that was never registered raises KeyError and
\* leaves the table of modifiers as it was: no item is created and no set
\* changes.
C13_UnknownKey(call) ==
    \/ /\ call.op = "add_modifier"
       /\ call.modifier \in GoodModifiers
       /\ scoped(call.key[1], call.key[2])
       /\ call.key \notin schemas
    \/ /\ call.op = "remove_modifier"
       /\ call.arg # <<"none">>
       /\ \A k \in schemas :
            IF call.arg[1] = "tuple" THEN k # <<call.arg[2], call.arg[3]>>
            ELSE k[1] # call.arg[2]

C13_UnknownKeyRaises ==
    [][C13_UnknownKey(last')
       => (last'.outcome = "KeyError" /\ modifiers' = modifiers)]_vars

C13_Witness ==
    /\ C13_UnknownKey(last)
    /\ last.op = "add_modifier"
    /\ last.outcome = "KeyError"
    /\ \E i \in 1..Len(modifiers) : modifiers[i][2] # {}

\* C14: remove_handler raises no error; it leaves the handlers as they were
\* when the handler is not among them, and a second removal of the same
\* handler right after the first changes nothing.
C14_RemoveHandlerIdempotent ==
    [][last'.op = "remove_handler"
       => /\ last'.outcome = "ok"
          /\ (last'.sink \notin Range(handlers)
              \/ (last.op = "remove_handler" /\ last.sink = last'.sink))
             => (handlers' = handlers /\ log_handlers' = log_handlers)]_vars

\* C17: emit checks the handlers, then the schema, then runs the modifiers,
\* then validates, then dispatches: nothing is invoked or written by a call
\* that returned at one of the two checks; a call that went on invoked every
\* modifier of the key exactly once, each on the output of the one before,
\* validated the output of the last one, and wrote to a handler only when
\* that output conforms.
C17_EmitOrder ==
    EmitDone =>
        LET sid == last.key[1]
            ver == last.key[2]
            inv == last.invoked
            fed == IF Len(inv) = 0 THEN last.data
                   ELSE IF Len(inv) = 1 THEN CallModifier(inv[1], sid, ver, last.data)
                   ELSE CallModifier(inv[2], sid, ver,
                                     CallModifier(inv[1], sid, ver, last.data))
        IN /\ last.validated => last.checked
           /\ ~last.validated => (inv = <<>> /\ last.writes = NoWrites
                                  /\ last.outcome = "None")
           /\ last.validated =>
                /\ Range(inv) = DictGet(modifiers, last.key)
                /\ Len(inv) = Cardinality(DictGet(modifiers, last.key))
                /\ Len(inv) <= 2
                /\ last.modified = fed
                /\ (last.outcome = "capsule") = Conforms(last.key, fed)
                /\ last.writes # NoWrites => Conforms(last.key, fed)

C17_Witness ==
    /\ EmitDone
    /\ last.invoked = <<"set_x_7", "x_to_str">>
    /\ last.outcome = "EventValidationError"
    /\ last.data["x"] = JStr("not-an-integer")

\* C19: in every reachable state the keys of the table of modifiers are the
\* registered schema keys, and an emit call, whatever its outcome, leaves the
\* table, the registry and the handlers as they were.
C19_TableKeysAreSchemas ==
    [][/\ DictKeys(modifiers) = schemas
       /\ DictKeys(modifiers') = schemas'
       /\ last'.op = "emit"
          => UNCHANGED <<modifiers, schemas, handlers, handlers_none,
                         log_handlers>>]_vars

C19_Witness ==
    /\ EmitDone
    /\ last.checked
    /\ ~last.validated
    /\ last.key \notin DictKeys(modifiers)
    /\ \E i \in 1..Len(modifiers) : modifiers[i][2] # {}

\* C20: the handlers list holds no handler twice and holds exactly the
\* handlers attached to the logger; an emit call that passed the handlers
\* check had a handler attached, and one that returned at it had none.
C20_HandlersMatchLogger ==
    /\ Cardinality(Range(handlers)) = Len(handlers)
    /\ Range(handlers) = Range(log_handlers)
    /\ EmitDone => (last.checked = (log_handlers # <<>>))

\* C18: after emit, whatever its outcome, the caller's payload object holds
\* what it held when emit was called: what the modifiers return and what
\* validate_event redacts in place is written to the copy.
C18_CallerPayloadUnchanged == EmitDone => last.caller_data = last.data

C18_Witness ==
    /\ EmitDone
    /\ last.outcome = "capsule"
    /\ last.invoked # <<>>
    /\ "secret" \in DOMAIN last.data
    /\ "secret" \notin DOMAIN last.capsule
    /\ last.capsule["x"] # last.data["x"]
    /\ last.caller_data = last.data

\* C16: an emit call whose data passed validation returns the capsule however
\* the handlers' writes end, and writes to no handler more than once.
C16_ReturnsWhateverTheWrites ==
    (EmitDone /\ last.validated /\ Conforms(last.key, last.modified))
    => /\ last.outcome = "capsule"
       /\ \A h \in Sinks : last.writes[h] <= 1

\* C15: an emit call that runs while register_event_schema, add_modifier and
\* remove_modifier run on other threads never fails on its own reads of the
\* table: it returns at a check, returns the capsule, or raises the
\* validation error of the data it modified.
C15_EmitNeverTorn ==
    EmitDone => last.outcome \in {"None", "capsule", "EventValidationError"}

====
